---- MODULE Spec2Model ----
(***************************************************************************)
(* Model of the SPR1 / SPR2 sprite chunk encoders of src/src/spr.rs.       *)
(*                                                                         *)
(* Sprite::to_spr1_chunk_bytes and Sprite::to_spr2_chunk_bytes are         *)
(* modelled as a state machine that walks the loops of the code: the frame *)
(* loop, the row loop (with the whole-row transparency skip), the per-row  *)
(* scan (one action per iteration of `while x < width`) and the container  *)
(* assembly.  Byte vectors are sequences of integers 0..255, pixel buffers *)
(* are row-major sequences indexed from 0 through PixelAt.  A Rust panic   *)
(* (unwrap of a failed try_from, a failed assert!, an out-of-range index,  *)
(* a missing file) ends the run in pc = "failed" with no chunk returned.   *)
(***************************************************************************)
EXTENDS Integers, Sequences, FiniteSets, TLC

VARIABLES
    asset,        \* the Sprite being encoded (immutable input)
    pc,           \* position in the encoder
    fi,           \* 1-based index of the frame being encoded
    y,            \* row cursor of the row loop
    x,            \* column cursor of the per-row scan
    row_commands, \* Vec<u8> of the row being encoded
    frame_data,   \* Vec<u8> of the frame being encoded
    frame_datas,  \* Vec<Vec<u8>> of the frames already encoded
    chunk_data,   \* the assembled payload (spr1_data / spr2_data)
    failure       \* why the encoder panicked ("none" while it has not)

vars == <<asset, pc, fi, y, x, row_commands, frame_data, frame_datas, chunk_data, failure>>

(***************************************************************************)
(* Bounds of the model.                                                    *)
(***************************************************************************)
\* number of runs a generated wide SPR1 row is built from
MaxRuns == 3
\* width of the small multi-row frames
MaxWidth == 2
\* width of the one-row SPR2 frames
MaxRowWidth == 4
\* height of the small multi-row frames
MaxHeight == 3
\* number of frame descriptors of a multi-frame asset
MaxFrames == 3
\* width of the one-row frames of a multi-frame asset
MaxAsmWidth == 3

(***************************************************************************)
(* Program constants.                                                      *)
(***************************************************************************)
REPEAT_THRESHOLD == 8
SPR1_VERSION == 504
SPR2_VERSION == 1000
SPRITE_FLAGS == 7
\* u8::MAX, the range of every SPR1 length field (u8::try_from)
U8Max == 255
\* u16::MAX, the range of u16::try_from
U16Max == 65535
\* 0b0001111111111111, the range of an SPR2 length field
Spr2LengthMax == 8191
\* transparent colour index forced by a custom wall style
CustomWallTransparent == 255
\* alpha5 of a fully opaque SPR2 pixel
OpaqueAlpha == 31

\* SPR1 opcodes (fn row_command, SPR1)
StartSprite1 == 0
Transparent1 == 1
OpaqueRepeat1 == 2
Opaque1 == 3
Start1 == 4
EndSprite1 == 5
TransparentRows1 == 9

\* SPR2 opcodes: the top three bits of the command word (fn row_command, SPR2)
Start2 == 0
Opaque2 == 1
Translucent2 == 2
Transparent2 == 3
TransparentRows2 == 4
End2 == 5

(***************************************************************************)
(* Byte helpers.                                                           *)
(***************************************************************************)
\* u16::to_le_bytes
LE16(n) == <<n % 256, (n \div 256) % 256>>

\* u32::to_le_bytes
LE32(n) == <<n % 256, (n \div 256) % 256, (n \div 65536) % 256, (n \div 16777216) % 256>>

\* i32::to_le_bytes: \div rounds down and % is never negative, which is two's complement
I32LE(v) == LE32(v)

\* i16::to_le_bytes: two's complement, as for I32LE
I16LE(v) == LE16(v)

\* pixels[i], with Rust's 0-based index
PixelAt(pixels, i) == pixels[i + 1]

\* &pixels[from..from + n]
Slice(pixels, from, n) == [k \in 1..n |-> pixels[from + k]]

\* n zero bytes (Vec::resize(len + n, 0))
Zeros(n) == [k \in 1..n |-> 0]

\* Option<Vec<u8>>
None == [some |-> FALSE, v |-> <<>>]
Some(v) == [some |-> TRUE, v |-> v]

RECURSIVE SumLen(_)
\* total byte length of a list of byte vectors
SumLen(vs) == IF vs = <<>> THEN 0 ELSE Len(Head(vs)) + SumLen(Tail(vs))

RECURSIVE Flatten(_)
\* concatenation of a list of byte vectors
Flatten(vs) == IF vs = <<>> THEN <<>> ELSE Head(vs) \o Flatten(Tail(vs))

(***************************************************************************)
(* The input: Sprite and SpriteFrame.                                      *)
(***************************************************************************)
\* the frame being encoded
Frame == asset.sprite_frames[fi]

\* SPR1 reads the depth channel for a custom wall style, else the colour channel
Spr1Pixels(f) == IF asset.is_custom_wall_style THEN f.z ELSE f.p

\* SPR1 effective transparent colour index
Spr1Transparent(f) == IF asset.is_custom_wall_style THEN CustomWallTransparent ELSE f.transparent_color_index

\* self.palette_chunk_id.as_i16().is_positive()
PalettePositive == asset.palette_chunk_id > 0

(***************************************************************************)
(* Whole-row skip, shared by both encoders.                                *)
(***************************************************************************)
\* pixels[from..].iter().position(|x| *x != t): the offset from `from`, or -1 for None
Position(pixels, from, t) ==
    IF \A i \in 0..(Len(pixels) - from - 1) : PixelAt(pixels, from + i) = t THEN -1
    ELSE CHOOSE i \in 0..(Len(pixels) - from - 1) :
            /\ PixelAt(pixels, from + i) # t
            /\ \A j \in 0..(i - 1) : PixelAt(pixels, from + j) = t

\* mutant of TransparentRowCount: when no pixel is found, all the remaining rows
TransparentRowCountToEnd(pixels, row_index, width, t) ==
    LET i == Position(pixels, row_index, t)
    IN IF i < 0 THEN (Len(pixels) - row_index) \div width ELSE i \div width

\* mutant of TransparentRowCount: one row is skipped at a time
TransparentRowCountOne(pixels, row_index, width, t) ==
    LET i == Position(pixels, row_index, t)
    IN IF i < 0 THEN 0 ELSE IF i \div width >= 1 THEN 1 ELSE 0

\* mutant of TransparentRowCount: the pixel offset is taken as the row count
TransparentRowCountNoDivide(pixels, row_index, width, t) ==
    LET i == Position(pixels, row_index, t)
    IN IF i < 0 THEN 0 ELSE i

\* the rows the skip advances over: i / width when a pixel is found, else 0
TransparentRowCount(pixels, row_index, width, t) ==
    LET i == Position(pixels, row_index, t)
    IN IF i < 0 THEN 0 ELSE i \div width

(***************************************************************************)
(* SPR1 per-row scan.                                                      *)
(***************************************************************************)
\* scan context of one SPR1 row
Spr1Ctx(f, yy) ==
    [pixels |-> Spr1Pixels(f), width |-> f.width, row_index |-> yy * f.width,
     t |-> Spr1Transparent(f), pal |-> PalettePositive]

\* mutant of TransparentWidth: the run is not counted
TransparentWidthZero(pixels, row_index, width, t, x0) == 0

\* mutant of TransparentWidth: the run is cut after its first pixel
TransparentWidthOne(pixels, row_index, width, t, x0) == 1

\* length of the run of the transparent colour that starts at column x0
TransparentWidth(pixels, row_index, width, t, x0) ==
    CHOOSE w \in 1..(width - x0) :
        /\ x0 + w = width \/ PixelAt(pixels, row_index + x0 + w) # t
        /\ \A v \in 1..(w - 1) : PixelAt(pixels, row_index + x0 + v) = t

\* repeated_width: pixels equal to first_pixel from column range_x on
RepeatedWidth(c, range_x) ==
    LET first_pixel == PixelAt(c.pixels, c.row_index + range_x)
        Goes(v) == PixelAt(c.pixels, c.row_index + range_x + v) = first_pixel
    IN CHOOSE w \in 1..(c.width - range_x) :
        /\ range_x + w = c.width \/ ~Goes(w)
        /\ \A v \in 1..(w - 1) : Goes(v)

\* unique_width: pixels that differ from their predecessor and are not transparent
UniqueWidth(c, range_x) ==
    LET Goes(v) ==
            /\ PixelAt(c.pixels, c.row_index + range_x + v) # PixelAt(c.pixels, c.row_index + range_x + v - 1)
            /\ PixelAt(c.pixels, c.row_index + range_x + v) # c.t
    IN CHOOSE w \in 1..(c.width - range_x) :
        /\ range_x + w = c.width \/ ~Goes(w)
        /\ \A v \in 1..(w - 1) : Goes(v)

\* result of the inner `while range_x < width` loop
RangeResult(range_x, ongoing, cmds, fail) ==
    [range_x |-> range_x, ongoing |-> ongoing, cmds |-> cmds, failure |-> fail]

\* the pixel pushed for a literal that ends at the row's end or before a transparent pixel
SinglePixel(c, x0, range_x) == PixelAt(c.pixels, c.row_index + x0)

\* the index read for the colour byte of an opaque-repeat command
RepeatColorIndex(c, x0, range_x) == c.row_index + range_x + x0

\* the pixels a run of differing pixels appends to the literal
UniquePixels(c, x0, range_x, unique_width) == Slice(c.pixels, c.row_index + x0, unique_width)

\* the bytes a short run of equal pixels appends to the literal
ShortRepeatPixels(c, range_x, repeated_width) ==
    IF c.pal THEN Slice(c.pixels, c.row_index + range_x, repeated_width)
    ELSE Zeros(repeated_width)

\* whether a run of equal pixels is long enough for an opaque-repeat command
ReachesThreshold(repeated_width) == repeated_width >= REPEAT_THRESHOLD

RECURSIVE Spr1Range(_, _, _, _, _)
\* the inner loop over range_x that accumulates the literal (ongoing_unique_range)
Spr1Range(c, x0, range_x, ongoing, cmds) ==
    IF range_x >= c.width THEN RangeResult(range_x, ongoing, cmds, "none")
    ELSE
    LET first_pixel == PixelAt(c.pixels, c.row_index + range_x) IN
    IF first_pixel = c.t THEN RangeResult(range_x, ongoing, cmds, "none")
    ELSE IF range_x + 1 = c.width
              \/ PixelAt(c.pixels, c.row_index + range_x + 1) = c.t
    THEN RangeResult(range_x + 1, Some(Append(ongoing.v, SinglePixel(c, x0, range_x))), cmds, "none")
    ELSE IF first_pixel = PixelAt(c.pixels, c.row_index + range_x + 1)
    THEN LET repeated_width == RepeatedWidth(c, range_x) IN
         IF ReachesThreshold(repeated_width) /\ ongoing.some
         THEN RangeResult(range_x, ongoing, cmds, "none")
         ELSE IF ReachesThreshold(repeated_width)
         THEN IF repeated_width > U8Max
              THEN RangeResult(range_x, ongoing, cmds, "EncodingOverflow")
              ELSE IF c.pal /\ RepeatColorIndex(c, x0, range_x) >= Len(c.pixels)
              THEN RangeResult(range_x, ongoing, cmds, "IndexOutOfBounds")
              ELSE Spr1Range(c, x0, range_x + repeated_width, ongoing,
                             cmds \o <<OpaqueRepeat1, repeated_width,
                                       IF c.pal THEN PixelAt(c.pixels, RepeatColorIndex(c, x0, range_x)) ELSE 0,
                                       0>>)
         ELSE Spr1Range(c, x0, range_x + repeated_width,
                        Some(ongoing.v \o ShortRepeatPixels(c, range_x, repeated_width)), cmds)
    ELSE LET unique_width == UniqueWidth(c, range_x) IN
         IF c.row_index + x0 + unique_width > Len(c.pixels)
         THEN RangeResult(range_x, ongoing, cmds, "IndexOutOfBounds")
         ELSE Spr1Range(c, x0, range_x + unique_width,
                        Some(ongoing.v \o UniquePixels(c, x0, range_x, unique_width)), cmds)

\* mutant of Spr1OpaquePad: no pad byte, as for an SPR2 opaque command
Spr1OpaquePadNever(len) == <<>>

\* the pad bytes that follow the payload of an SPR1 opaque command
Spr1OpaquePad(len) == IF len % 2 # 0 THEN <<0>> ELSE <<>>

\* the flush of the pending literal at the end of an iteration of the scan
Spr1Flush(ongoing, cmds) ==
    IF ~ongoing.some THEN [cmds |-> cmds, failure |-> "none"]
    ELSE IF Len(ongoing.v) > U8Max THEN [cmds |-> cmds, failure |-> "EncodingOverflow"]
    ELSE [cmds |-> cmds \o <<Opaque1, Len(ongoing.v)>> \o ongoing.v \o Spr1OpaquePad(Len(ongoing.v)),
          failure |-> "none"]

\* one iteration of `while x < width`: [x, cmds, break, failure]
Spr1Iteration(c, x0, cmds) ==
    IF PixelAt(c.pixels, c.row_index + x0) = c.t
    THEN LET transparent_width == TransparentWidth(c.pixels, c.row_index, c.width, c.t, x0) IN
         IF x0 + transparent_width = c.width
         THEN [x |-> x0, cmds |-> cmds, break |-> TRUE, failure |-> "none"]
         ELSE IF transparent_width > U8Max
         THEN [x |-> x0, cmds |-> cmds, break |-> FALSE, failure |-> "EncodingOverflow"]
         ELSE [x |-> x0 + transparent_width, cmds |-> cmds \o <<Transparent1, transparent_width>>,
               break |-> FALSE, failure |-> "none"]
    ELSE LET r == Spr1Range(c, x0, x0, None, cmds) IN
         IF r.failure # "none"
         THEN [x |-> x0, cmds |-> cmds, break |-> FALSE, failure |-> r.failure]
         ELSE LET fl == Spr1Flush(r.ongoing, r.cmds) IN
              [x |-> r.range_x, cmds |-> fl.cmds, break |-> FALSE, failure |-> fl.failure]

(***************************************************************************)
(* SPR2 per-row scan.                                                      *)
(***************************************************************************)
\* width of an SPR2 frame: bounds_right - bounds_left
Spr2Width(f) == f.bounds_right - f.bounds_left

\* height of an SPR2 frame: bounds_bottom - bounds_top
Spr2Height(f) == f.bounds_bottom - f.bounds_top

\* pixels_a[i] >> 3
Alpha5(a) == a \div 8

\* fn row_command (SPR2): the command word, as its two little-endian bytes
Spr2Command(op, size_or_length) == LE16(op * 8192 + size_or_length)

\* scan context of one SPR2 row
Spr2Ctx(f, yy) ==
    [p |-> f.p, z |-> f.z, a |-> f.a, width |-> Spr2Width(f), row_index |-> yy * Spr2Width(f),
     t |-> f.transparent_color_index]

\* mutant of TranslucentWidth: the run is extended on alpha alone
TranslucentWidthAnyColor(c, x0) ==
    LET Goes(v) == Alpha5(PixelAt(c.a, c.row_index + x0 + v)) # OpaqueAlpha
    IN CHOOSE w \in 1..(c.width - x0) :
        /\ x0 + w = c.width \/ ~Goes(w)
        /\ \A v \in 1..(w - 1) : Goes(v)

\* translucent_color_width: pixels that are not transparent and whose alpha5 is not 31
TranslucentWidth(c, x0) ==
    LET Goes(v) == /\ PixelAt(c.p, c.row_index + x0 + v) # c.t
                   /\ Alpha5(PixelAt(c.a, c.row_index + x0 + v)) # OpaqueAlpha
    IN CHOOSE w \in 1..(c.width - x0) :
        /\ x0 + w = c.width \/ ~Goes(w)
        /\ \A v \in 1..(w - 1) : Goes(v)

\* color_width: pixels that are not transparent and whose alpha5 is 31
OpaqueWidth(c, x0) ==
    LET Goes(v) == /\ PixelAt(c.p, c.row_index + x0 + v) # c.t
                   /\ Alpha5(PixelAt(c.a, c.row_index + x0 + v)) = OpaqueAlpha
    IN CHOOSE w \in 1..(c.width - x0) :
        /\ x0 + w = c.width \/ ~Goes(w)
        /\ \A v \in 1..(w - 1) : Goes(v)

\* 3 bytes per pixel: depth, colour, alpha5
TranslucentPayload(c, x0, n) ==
    [k \in 1..(3 * n) |->
        LET i == c.row_index + x0 + ((k - 1) \div 3)
        IN IF (k - 1) % 3 = 0 THEN PixelAt(c.z, i)
           ELSE IF (k - 1) % 3 = 1 THEN PixelAt(c.p, i)
           ELSE Alpha5(PixelAt(c.a, i))]

\* mutant of OpaquePayload: the two bytes of a pixel in the order colour, depth
OpaquePayloadColorFirst(c, x0, n) ==
    [k \in 1..(2 * n) |->
        LET i == c.row_index + x0 + ((k - 1) \div 2)
        IN IF (k - 1) % 2 = 0 THEN PixelAt(c.p, i) ELSE PixelAt(c.z, i)]

\* 2 bytes per pixel: depth, colour
OpaquePayload(c, x0, n) ==
    [k \in 1..(2 * n) |->
        LET i == c.row_index + x0 + ((k - 1) \div 2)
        IN IF (k - 1) % 2 = 0 THEN PixelAt(c.z, i) ELSE PixelAt(c.p, i)]

\* mutant of Spr2TranslucentPad: no pad byte, as for an SPR2 opaque command
Spr2TranslucentPadNever(n) == <<>>

\* the pad bytes that follow the payload of an SPR2 translucent command
Spr2TranslucentPad(n) == IF n % 2 = 1 THEN <<0>> ELSE <<>>

\* mutant of Spr2OpaquePad: one pad byte after an odd count, as for a translucent command
Spr2OpaquePadOdd(n) == IF n % 2 = 1 THEN <<0>> ELSE <<>>

\* the pad bytes that follow the payload of an SPR2 opaque command: never any
Spr2OpaquePad(n) == <<>>

\* u16::try_from(n).unwrap() followed by the assert! of row_command
Spr2LengthFits(n) == n <= U16Max /\ n <= Spr2LengthMax

\* one iteration of `while x < width`: [x, cmds, break, failure]
Spr2Iteration(c, x0, cmds) ==
    LET color_pixel == PixelAt(c.p, c.row_index + x0)
        alpha_pixel == Alpha5(PixelAt(c.a, c.row_index + x0))
    IN
    IF color_pixel = c.t
    THEN LET transparent_width == TransparentWidth(c.p, c.row_index, c.width, c.t, x0) IN
         IF x0 + transparent_width = c.width
         THEN [x |-> x0, cmds |-> cmds, break |-> TRUE, failure |-> "none"]
         ELSE IF ~Spr2LengthFits(transparent_width)
         THEN [x |-> x0, cmds |-> cmds, break |-> FALSE, failure |-> "EncodingOverflow"]
         ELSE [x |-> x0 + transparent_width,
               cmds |-> cmds \o Spr2Command(Transparent2, transparent_width),
               break |-> FALSE, failure |-> "none"]
    ELSE IF alpha_pixel < OpaqueAlpha
    THEN LET translucent_color_width == TranslucentWidth(c, x0) IN
         IF ~Spr2LengthFits(translucent_color_width)
         THEN [x |-> x0, cmds |-> cmds, break |-> FALSE, failure |-> "EncodingOverflow"]
         ELSE [x |-> x0 + translucent_color_width,
               cmds |-> cmds \o Spr2Command(Translucent2, translucent_color_width)
                        \o TranslucentPayload(c, x0, translucent_color_width)
                        \o Spr2TranslucentPad(translucent_color_width),
               break |-> FALSE, failure |-> "none"]
    ELSE LET color_width == OpaqueWidth(c, x0) IN
         IF ~Spr2LengthFits(color_width)
         THEN [x |-> x0, cmds |-> cmds, break |-> FALSE, failure |-> "EncodingOverflow"]
         ELSE [x |-> x0 + color_width,
               cmds |-> cmds \o Spr2Command(Opaque2, color_width)
                        \o OpaquePayload(c, x0, color_width)
                        \o Spr2OpaquePad(color_width),
               break |-> FALSE, failure |-> "none"]

(***************************************************************************)
(* Container assembly.                                                     *)
(***************************************************************************)
\* version, frame count, palette id: the 12 bytes before the offset table
PayloadHeader(version, frame_count) ==
    LE32(version) \o LE32(frame_count) \o I32LE(asset.palette_chunk_id)

\* the frame count SPR1 writes and sizes the offset table with: the declared count
Spr1FrameCount == asset.sprite_frame_count

\* the frame count SPR2 writes and sizes the offset table with: the descriptors present
Spr2FrameCount == Len(asset.sprite_frames)

\* frame_address before the first frame: header length + 4 bytes per counted frame
FirstFrameAddress(header, frame_count) == Len(header) + frame_count * 4

\* mutant of FrameAddresses: frame_address is never advanced
FrameAddressesNoSum(first, datas) == [k \in 1..Len(datas) |-> first]

\* the running frame_address: one entry per encoded frame
FrameAddresses(first, datas) ==
    [k \in 1..Len(datas) |-> first + SumLen(SubSeq(datas, 1, k - 1))]

RECURSIVE OffsetTable(_)
\* the offset table bytes
OffsetTable(addresses) ==
    IF addresses = <<>> THEN <<>> ELSE LE32(Head(addresses)) \o OffsetTable(Tail(addresses))

\* spr1_data / spr2_data: header, offset table, frame blobs
AssemblePayload(version, frame_count, datas) ==
    LET header == PayloadHeader(version, frame_count)
    IN header \o OffsetTable(FrameAddresses(FirstFrameAddress(header, frame_count), datas))
              \o Flatten(datas)

(***************************************************************************)
(* The encoder as a state machine.                                         *)
(***************************************************************************)
\* mutant of Fail: the frames encoded so far are left in the output
FailWithPartial(kind) ==
    /\ pc' = "failed"
    /\ failure' = kind
    /\ chunk_data' = Flatten(frame_datas)
    /\ UNCHANGED <<asset, fi, y, x, row_commands, frame_data, frame_datas>>

\* a panic: the call unwinds and returns nothing
Fail(kind) ==
    /\ pc' = "failed"
    /\ failure' = kind
    /\ UNCHANGED <<asset, fi, y, x, row_commands, frame_data, frame_datas, chunk_data>>

\* the outcomes of `2 + len` in the width of the length type: exact when it fits,
\* else a panic (overflow checks on) or the wrapped value (overflow checks off)
AddTwoOutcomes(len, max) ==
    IF 2 + len <= max THEN {[panic |-> FALSE, value |-> 2 + len]}
    ELSE {[panic |-> TRUE, value |-> 0], [panic |-> FALSE, value |-> (2 + len) % (max + 1)]}

\* SPR1: load the frame's bitmap, write the frame header and the start-of-sprite marker
Spr1BeginFrame ==
    /\ pc = "frame"
    /\ asset.sprite_type = "Spr1"
    /\ fi <= Len(asset.sprite_frames)
    /\ IF ~Frame.exists THEN Fail("DecodeError")
       ELSE IF Frame.height > U16Max \/ Frame.width > U16Max THEN Fail("EncodingOverflow")
       ELSE /\ frame_data' = LE32(0) \o LE16(Frame.height) \o LE16(Frame.width) \o <<StartSprite1, 0>>
            /\ y' = 0
            /\ x' = 0
            /\ row_commands' = <<>>
            /\ pc' = "row"
            /\ UNCHANGED <<asset, fi, frame_datas, chunk_data, failure>>

\* SPR1: the head of an iteration of `while y < height`: the whole-row skip, or the
\* start of the per-row scan
Spr1RowLoop ==
    /\ pc = "row"
    /\ asset.sprite_type = "Spr1"
    /\ y < Frame.height
    /\ LET transparent_row_count ==
               TransparentRowCount(Spr1Pixels(Frame), y * Frame.width, Frame.width, Spr1Transparent(Frame))
       IN IF transparent_row_count >= 1
          THEN IF transparent_row_count > U8Max THEN Fail("EncodingOverflow")
               ELSE /\ frame_data' = frame_data \o <<TransparentRows1, transparent_row_count>>
                    /\ y' = y + transparent_row_count
                    /\ x' = 0
                    /\ row_commands' = <<>>
                    /\ UNCHANGED <<asset, pc, fi, frame_datas, chunk_data, failure>>
          ELSE /\ x' = 0
               /\ row_commands' = <<>>
               /\ pc' = IF 0 < Frame.width THEN "scan" ELSE "rowend"
               /\ UNCHANGED <<asset, fi, y, frame_data, frame_datas, chunk_data, failure>>

\* SPR1: one iteration of `while x < width`
Spr1ScanStep ==
    /\ pc = "scan"
    /\ asset.sprite_type = "Spr1"
    /\ LET it == Spr1Iteration(Spr1Ctx(Frame, y), x, row_commands)
       IN IF it.failure # "none" THEN Fail(it.failure)
          ELSE /\ x' = it.x
               /\ row_commands' = it.cmds
               /\ pc' = IF it.break \/ it.x >= Frame.width THEN "rowend" ELSE "scan"
               /\ UNCHANGED <<asset, fi, y, frame_data, frame_datas, chunk_data, failure>>

\* SPR1: wrap the row's commands in a start-of-row command and advance y
Spr1EndRow ==
    /\ pc = "rowend"
    /\ asset.sprite_type = "Spr1"
    /\ IF Len(row_commands) > U8Max THEN Fail("EncodingOverflow")
       ELSE \E sum \in AddTwoOutcomes(Len(row_commands), U8Max):
                IF sum.panic THEN Fail("ArithmeticOverflow")
                ELSE /\ frame_data' = frame_data \o <<Start1, sum.value>> \o row_commands
                     /\ y' = y + 1
                     /\ pc' = "row"
                     /\ UNCHANGED <<asset, fi, x, row_commands, frame_datas, chunk_data, failure>>

\* SPR1: the row loop is over: end-of-sprite marker, push the frame blob
Spr1EndFrame ==
    /\ pc = "row"
    /\ asset.sprite_type = "Spr1"
    /\ y >= Frame.height
    /\ frame_datas' = Append(frame_datas, frame_data \o <<EndSprite1, 0>>)
    /\ fi' = fi + 1
    /\ pc' = "frame"
    /\ UNCHANGED <<asset, y, x, row_commands, frame_data, chunk_data, failure>>

\* SPR1: after the last frame, assemble the payload
Spr1Assemble ==
    /\ pc = "frame"
    /\ asset.sprite_type = "Spr1"
    /\ fi > Len(asset.sprite_frames)
    /\ IF Spr1FrameCount < 0 THEN Fail("InvalidFrameCount")
       ELSE /\ chunk_data' = AssemblePayload(SPR1_VERSION, Spr1FrameCount, frame_datas)
            /\ pc' = "done"
            /\ UNCHANGED <<asset, fi, y, x, row_commands, frame_data, frame_datas, failure>>

\* SPR2: load the frame's three channels, write the frame header
Spr2BeginFrame ==
    /\ pc = "frame"
    /\ asset.sprite_type = "Spr2"
    /\ fi <= Len(asset.sprite_frames)
    /\ IF Spr2Width(Frame) < 0 \/ Spr2Height(Frame) < 0 THEN Fail("InvalidBounds")
       ELSE IF ~Frame.exists THEN Fail("DecodeError")
       ELSE IF Frame.bounds_left < 0 \/ Frame.bounds_top < 0 THEN Fail("InvalidBounds")
       ELSE IF Spr2Width(Frame) > U16Max \/ Spr2Height(Frame) > U16Max THEN Fail("EncodingOverflow")
       ELSE /\ frame_data' = LE16(Spr2Width(Frame)) \o LE16(Spr2Height(Frame)) \o LE32(SPRITE_FLAGS)
                             \o I16LE(Frame.palette_chunk_id) \o LE16(Frame.transparent_color_index)
                             \o LE16(Frame.bounds_top) \o LE16(Frame.bounds_left)
            /\ y' = 0
            /\ x' = 0
            /\ row_commands' = <<>>
            /\ pc' = "row"
            /\ UNCHANGED <<asset, fi, frame_datas, chunk_data, failure>>

\* SPR2: the head of an iteration of `while y < height`
Spr2RowLoop ==
    /\ pc = "row"
    /\ asset.sprite_type = "Spr2"
    /\ y < Spr2Height(Frame)
    /\ LET transparent_row_count ==
               TransparentRowCount(Frame.p, y * Spr2Width(Frame), Spr2Width(Frame),
                                   Frame.transparent_color_index)
       IN IF transparent_row_count >= 1
          THEN IF ~Spr2LengthFits(transparent_row_count) THEN Fail("EncodingOverflow")
               ELSE /\ frame_data' = frame_data \o Spr2Command(TransparentRows2, transparent_row_count)
                    /\ y' = y + transparent_row_count
                    /\ x' = 0
                    /\ row_commands' = <<>>
                    /\ UNCHANGED <<asset, pc, fi, frame_datas, chunk_data, failure>>
          ELSE /\ x' = 0
               /\ row_commands' = <<>>
               /\ pc' = IF 0 < Spr2Width(Frame) THEN "scan" ELSE "rowend"
               /\ UNCHANGED <<asset, fi, y, frame_data, frame_datas, chunk_data, failure>>

\* SPR2: one iteration of `while x < width`
Spr2ScanStep ==
    /\ pc = "scan"
    /\ asset.sprite_type = "Spr2"
    /\ LET it == Spr2Iteration(Spr2Ctx(Frame, y), x, row_commands)
       IN IF it.failure # "none" THEN Fail(it.failure)
          ELSE /\ x' = it.x
               /\ row_commands' = it.cmds
               /\ pc' = IF it.break \/ it.x >= Spr2Width(Frame) THEN "rowend" ELSE "scan"
               /\ UNCHANGED <<asset, fi, y, frame_data, frame_datas, chunk_data, failure>>

\* SPR2: wrap the row's commands in a start-of-row command and advance y
Spr2EndRow ==
    /\ pc = "rowend"
    /\ asset.sprite_type = "Spr2"
    /\ IF Len(row_commands) > U16Max THEN Fail("EncodingOverflow")
       ELSE \E sum \in AddTwoOutcomes(Len(row_commands), U16Max):
                IF sum.panic THEN Fail("ArithmeticOverflow")
                ELSE IF sum.value > Spr2LengthMax THEN Fail("EncodingOverflow")
                ELSE /\ frame_data' = frame_data \o Spr2Command(Start2, sum.value) \o row_commands
                     /\ y' = y + 1
                     /\ pc' = "row"
                     /\ UNCHANGED <<asset, fi, x, row_commands, frame_datas, chunk_data, failure>>

\* SPR2: the row loop is over: end marker, push the frame blob
Spr2EndFrame ==
    /\ pc = "row"
    /\ asset.sprite_type = "Spr2"
    /\ y >= Spr2Height(Frame)
    /\ frame_datas' = Append(frame_datas, frame_data \o Spr2Command(End2, 0))
    /\ fi' = fi + 1
    /\ pc' = "frame"
    /\ UNCHANGED <<asset, y, x, row_commands, frame_data, chunk_data, failure>>

\* SPR2: after the last frame, assemble the payload
Spr2Assemble ==
    /\ pc = "frame"
    /\ asset.sprite_type = "Spr2"
    /\ fi > Len(asset.sprite_frames)
    /\ chunk_data' = AssemblePayload(SPR2_VERSION, Spr2FrameCount, frame_datas)
    /\ pc' = "done"
    /\ UNCHANGED <<asset, fi, y, x, row_commands, frame_data, frame_datas, failure>>

NextSpr1 ==
    \/ Spr1BeginFrame
    \/ Spr1RowLoop
    \/ Spr1ScanStep
    \/ Spr1EndRow
    \/ Spr1EndFrame
    \/ Spr1Assemble

NextSpr2 ==
    \/ Spr2BeginFrame
    \/ Spr2RowLoop
    \/ Spr2ScanStep
    \/ Spr2EndRow
    \/ Spr2EndFrame
    \/ Spr2Assemble

Next == NextSpr1 \/ NextSpr2

(***************************************************************************)
(* Inputs.                                                                 *)
(***************************************************************************)
\* colour values of the wide SPR1 rows: normal transparent index, a colour, the
\* custom wall transparent index
Colors == {0, 10, CustomWallTransparent}

\* run lengths of the wide SPR1 rows: single pixels, pairs, and runs just below and
\* at the repeat threshold
RunLens == {1, 2, REPEAT_THRESHOLD - 1, REPEAT_THRESHOLD}

\* palette ids: not positive, positive
PaletteIds == {0, 1}

RECURSIVE RowsOfRuns(_)
\* the rows made of exactly k runs
RowsOfRuns(k) ==
    IF k = 0 THEN {<<>>}
    ELSE {r \o [i \in 1..l |-> c] : r \in RowsOfRuns(k - 1), c \in Colors, l \in RunLens}

\* the wide rows: 1..MaxRuns runs
WideRows == UNION {RowsOfRuns(k) : k \in 1..MaxRuns}

\* a frame descriptor with its decoded channel buffers
MkFrame(w, h, p, z, a, exists) ==
    [width |-> w, height |-> h, p |-> p, z |-> z, a |-> a, exists |-> exists,
     transparent_color_index |-> 0, palette_chunk_id |-> 1,
     bounds_left |-> 0, bounds_top |-> 0, bounds_right |-> w, bounds_bottom |-> h]

\* a sprite asset
MkAsset(type, palette, custom, count, frames) ==
    [sprite_type |-> type, palette_chunk_id |-> palette, is_custom_wall_style |-> custom,
     sprite_frame_count |-> count, sprite_frames |-> frames]

\* SPR1 frames of one wide row (the same buffer serves as colour and depth channel)
WideSpr1Frames == {MkFrame(Len(r), 1, r, r, <<>>, TRUE) : r \in WideRows}

\* small multi-row buffers over two pixel values
SmallBuffers(vals) ==
    UNION {[1..(w * h) -> vals] : w \in 1..MaxWidth, h \in 1..MaxHeight}

\* small multi-row SPR1 frames over {transparent, 10}
SmallSpr1Frames(t) ==
    {MkFrame(d[1], d[2], b, b, <<>>, TRUE) : <<b, d>> \in
        {bd \in SmallBuffers({t, 10}) \X ((1..MaxWidth) \X (1..MaxHeight)) :
            bd[2][1] * bd[2][2] = Len(bd[1])}}

\* single-frame SPR1 assets over the small frames
SmallSpr1Assets ==
    {MkAsset("Spr1", pal, custom, 1, <<f>>) :
        pal \in PaletteIds, custom \in {FALSE},
        f \in SmallSpr1Frames(0)}
    \cup
    {MkAsset("Spr1", pal, custom, 1, <<f>>) :
        pal \in PaletteIds, custom \in {TRUE},
        f \in SmallSpr1Frames(CustomWallTransparent)}

\* single-frame SPR1 assets over the wide rows
WideSpr1Assets ==
    {MkAsset("Spr1", pal, custom, 1, <<f>>) :
        pal \in PaletteIds, custom \in BOOLEAN, f \in WideSpr1Frames}

\* SPR2 pixels as <<colour, depth, alpha>>: transparent (opaque and faint alpha),
\* opaque (alpha5 = 31, two alphas), translucent (alpha5 = 0 and 16)
Spr2Pixels ==
    {<<0, 1, 255>>, <<0, 2, 7>>, <<10, 3, 255>>, <<CustomWallTransparent, 4, 248>>,
     <<10, 5, 7>>, <<CustomWallTransparent, 6, 128>>}

\* an SPR2 frame from a row-major buffer of <<colour, depth, alpha>> pixels
MkSpr2Frame(w, h, px) ==
    MkFrame(w, h, [i \in 1..Len(px) |-> px[i][1]], [i \in 1..Len(px) |-> px[i][2]],
            [i \in 1..Len(px) |-> px[i][3]], TRUE)

\* SPR2 frames of one row of up to MaxRowWidth pixels
RowSpr2Frames ==
    UNION {{MkSpr2Frame(w, 1, px) : px \in [1..w -> Spr2Pixels]} : w \in 1..MaxRowWidth}

\* small multi-row SPR2 frames over a transparent and an opaque pixel
SmallSpr2Frames ==
    {MkSpr2Frame(bd[2][1], bd[2][2], bd[1]) : bd \in
        {bd \in SmallBuffers({<<0, 1, 255>>, <<10, 3, 255>>}) \X ((1..MaxWidth) \X (1..MaxHeight)) :
            bd[2][1] * bd[2][2] = Len(bd[1])}}

\* single-frame SPR2 assets
Spr2AssetsOf(frames) == {MkAsset("Spr2", pal, FALSE, 1, <<f>>) : pal \in {1}, f \in frames}

\* one-row frames of a multi-frame asset: w 10 pixels, or a missing source image
AsmFrames(type) ==
    {IF type = "Spr1" THEN MkFrame(w, 1, [i \in 1..w |-> 10], [i \in 1..w |-> 10], <<>>, TRUE)
     ELSE MkSpr2Frame(w, 1, [i \in 1..w |-> <<10, 3, 255>>]) : w \in 1..MaxAsmWidth}
    \cup {[MkFrame(1, 1, <<>>, <<>>, <<>>, FALSE) EXCEPT !.exists = FALSE]}

\* multi-frame assets: 0..MaxFrames frame descriptors, any declared frame count
AsmAssets ==
    {MkAsset(type, 1, FALSE, count, frames) :
        type \in {"Spr1"}, count \in 0..(MaxFrames + 1),
        frames \in UNION {[1..n -> AsmFrames("Spr1")] : n \in 0..MaxFrames}}
    \cup
    {MkAsset(type, 1, FALSE, count, frames) :
        type \in {"Spr2"}, count \in 0..(MaxFrames + 1),
        frames \in UNION {[1..n -> AsmFrames("Spr2")] : n \in 0..MaxFrames}}

\* the state after the frame_datas vector is created, before the first frame
InitWith(assets) ==
    /\ asset \in assets
    /\ pc = "frame"
    /\ fi = 1
    /\ y = 0
    /\ x = 0
    /\ row_commands = <<>>
    /\ frame_data = <<>>
    /\ frame_datas = <<>>
    /\ chunk_data = <<>>
    /\ failure = "none"

\* both formats: small multi-row single-frame assets and multi-frame assets
Init == InitWith(SmallSpr1Assets \cup Spr2AssetsOf(SmallSpr2Frames) \cup AsmAssets)

\* SPR1 only: wide one-row frames and small multi-row frames
InitSpr1 == InitWith(WideSpr1Assets \cup SmallSpr1Assets)

\* SPR2 only: one-row frames over all pixel classes and small multi-row frames
InitSpr2 == InitWith(Spr2AssetsOf(RowSpr2Frames \cup SmallSpr2Frames))

\* a row of n pixels that alternate between two colours: one literal of n pixels
AlternatingRow(n) == [i \in 1..n |-> IF i % 2 = 1 THEN 10 ELSE CustomWallTransparent]

\* n pixels of one value
UniformRow(n, v) == [i \in 1..n |-> v]

\* SPR1 rows at the limits of the 8-bit fields: literals whose row body is 254, 256
\* and 258 bytes, opaque and transparent runs of 255 and 256 pixels
LongSpr1Rows ==
    {AlternatingRow(U8Max - 3), AlternatingRow(U8Max - 1), AlternatingRow(U8Max + 1),
     UniformRow(U8Max, 10), UniformRow(U8Max + 1, 10),
     UniformRow(U8Max, 0) \o <<10>>, UniformRow(U8Max + 1, 0) \o <<10>>}

\* SPR1 frames at the limits of the 8-bit fields: the long rows, and one-pixel-wide
\* frames of 255 and 256 transparent rows above a coloured pixel
LongSpr1Frames ==
    {MkFrame(Len(r), 1, r, r, <<>>, TRUE) : r \in LongSpr1Rows}
    \cup {MkFrame(1, n + 1, UniformRow(n, 0) \o <<10>>, UniformRow(n, 0) \o <<10>>, <<>>, TRUE) :
            n \in {U8Max, U8Max + 1}}

\* SPR2 pixels of the long rows
LongOpaque == <<10, 3, 255>>
LongTranslucent == <<10, 5, 7>>
LongTransparent == <<0, 1, 255>>

\* an SPR2 row whose body is exactly u16::MAX - 1 = 65534 bytes while every run
\* fits 13 bits: opaque 8191 (16384 bytes), translucent 8190 (24572), opaque 8191
\* (16384), transparent 1 (2), translucent 2730 (8192)
FullBodySpr2Row ==
    UniformRow(Spr2LengthMax, LongOpaque) \o UniformRow(Spr2LengthMax - 1, LongTranslucent)
    \o UniformRow(Spr2LengthMax, LongOpaque) \o <<LongTransparent>>
    \o UniformRow((U16Max - 1 - 2 * (2 + 2 * Spr2LengthMax) - (2 + 3 * (Spr2LengthMax - 1)) - 4) \div 3,
                  LongTranslucent)

\* SPR2 rows at the limits of the 13-bit fields: row bodies of 8188 and 8190 bytes,
\* runs of 8191 and 8192 pixels, and the row of 65534 body bytes
LongSpr2Rows ==
    {UniformRow((Spr2LengthMax - 5) \div 2, LongOpaque), UniformRow((Spr2LengthMax - 3) \div 2, LongOpaque),
     UniformRow(Spr2LengthMax + 1, LongOpaque),
     UniformRow(Spr2LengthMax, LongTransparent) \o <<LongOpaque>>,
     UniformRow(Spr2LengthMax + 1, LongTransparent) \o <<LongOpaque>>,
     FullBodySpr2Row}

\* SPR2 frames at the limits of the 13-bit fields: the long rows, and one-pixel-wide
\* frames of 8191 and 8192 transparent rows above an opaque pixel
LongSpr2Frames ==
    {MkSpr2Frame(Len(r), 1, r) : r \in LongSpr2Rows}
    \cup {MkSpr2Frame(1, n + 1, UniformRow(n, LongTransparent) \o <<LongOpaque>>) :
            n \in {Spr2LengthMax, Spr2LengthMax + 1}}

\* both formats: frames at the limits of the length fields, and the small frames
InitLong ==
    InitWith({MkAsset("Spr1", pal, FALSE, 1, <<f>>) : pal \in PaletteIds, f \in LongSpr1Frames}
             \cup Spr2AssetsOf(LongSpr2Frames)
             \cup SmallSpr1Assets \cup Spr2AssetsOf(SmallSpr2Frames))

\* both formats: wide one-row frames and small multi-row frames
InitRows == InitWith(WideSpr1Assets \cup SmallSpr1Assets \cup Spr2AssetsOf(RowSpr2Frames \cup SmallSpr2Frames))

\* one-pixel-wide frames of up to MaxHeight rows over two pixel values
ColumnBuffers(vals) == UNION {[1..h -> vals] : h \in 1..MaxHeight}

\* both formats: SPR1 rows of one or two runs, SPR2 rows of up to MaxAsmWidth
\* pixels, and one-pixel-wide frames of several rows
InitFair ==
    InitWith({MkAsset("Spr1", pal, custom, 1, <<MkFrame(Len(r), 1, r, r, <<>>, TRUE)>>) :
                pal \in PaletteIds, custom \in BOOLEAN, r \in RowsOfRuns(1) \cup RowsOfRuns(2)}
             \cup {MkAsset("Spr1", pal, FALSE, 1, <<MkFrame(1, Len(b), b, b, <<>>, TRUE)>>) :
                pal \in PaletteIds, b \in ColumnBuffers({0, 10})}
             \cup Spr2AssetsOf(UNION {{MkSpr2Frame(w, 1, px) : px \in [1..w -> Spr2Pixels]} :
                                      w \in 1..MaxAsmWidth})
             \cup Spr2AssetsOf({MkSpr2Frame(1, Len(b), b) :
                                b \in ColumnBuffers({<<0, 1, 255>>, <<10, 3, 255>>})}))

Spec == Init /\ [][Next]_vars

SpecLong == InitLong /\ [][Next]_vars

SpecRows == InitRows /\ [][Next]_vars

\* the encoder runs on: a step that is possible is eventually taken
SpecFair == InitFair /\ [][Next]_vars /\ WF_vars(Next)

SpecSpr1 == InitSpr1 /\ [][NextSpr1]_vars

SpecSpr2 == InitSpr2 /\ [][NextSpr2]_vars

(***************************************************************************)
(* Reference reading of the emitted bytes, used to state the properties.   *)
(* The readers follow the binary layout of the two formats: they are not   *)
(* part of the encoder.                                                    *)
(***************************************************************************)
\* n copies of v
Repeat(v, n) == [k \in 1..n |-> v]

\* a command that could not be read (unknown opcode, or bytes missing)
BadCommand == [op |-> -1, n |-> 0, payload |-> <<>>, pad |-> <<>>]

\* the bytes of body at 0-based offsets from .. from + n - 1
Bytes(body, from, n) == SubSeq(body, from + 1, from + n)

RECURSIVE Spr1ReadRow(_, _)
\* the commands of an SPR1 row body from byte offset pos on
Spr1ReadRow(body, pos) ==
    IF pos = Len(body) THEN <<>>
    ELSE IF pos + 2 > Len(body) THEN <<BadCommand>>
    ELSE LET op == body[pos + 1]
             n == body[pos + 2]
         IN IF op = Transparent1
            THEN <<[op |-> op, n |-> n, payload |-> <<>>, pad |-> <<>>]>> \o Spr1ReadRow(body, pos + 2)
            ELSE IF op = OpaqueRepeat1 /\ pos + 4 <= Len(body)
            THEN <<[op |-> op, n |-> n, payload |-> Bytes(body, pos + 2, 1), pad |-> Bytes(body, pos + 3, 1)]>>
                 \o Spr1ReadRow(body, pos + 4)
            ELSE IF op = Opaque1 /\ pos + 2 + n + (n % 2) <= Len(body)
            THEN <<[op |-> op, n |-> n, payload |-> Bytes(body, pos + 2, n),
                    pad |-> Bytes(body, pos + 2 + n, n % 2)]>>
                 \o Spr1ReadRow(body, pos + 2 + n + (n % 2))
            ELSE <<BadCommand>>

\* the 16-bit little-endian word at byte offset pos
WordAt(body, pos) == body[pos + 1] + 256 * body[pos + 2]

\* the 32-bit little-endian word at byte offset pos
U32At(body, pos) ==
    body[pos + 1] + 256 * body[pos + 2] + 65536 * body[pos + 3] + 16777216 * body[pos + 4]

RECURSIVE Spr2ReadRow(_, _)
\* the commands of an SPR2 row body from byte offset pos on
Spr2ReadRow(body, pos) ==
    IF pos = Len(body) THEN <<>>
    ELSE IF pos + 2 > Len(body) THEN <<BadCommand>>
    ELSE LET op == WordAt(body, pos) \div 8192
             n == WordAt(body, pos) % 8192
         IN IF op = Transparent2
            THEN <<[op |-> op, n |-> n, payload |-> <<>>, pad |-> <<>>]>> \o Spr2ReadRow(body, pos + 2)
            ELSE IF op = Opaque2 /\ pos + 2 + 2 * n <= Len(body)
            THEN <<[op |-> op, n |-> n, payload |-> Bytes(body, pos + 2, 2 * n), pad |-> <<>>]>>
                 \o Spr2ReadRow(body, pos + 2 + 2 * n)
            ELSE IF op = Translucent2 /\ pos + 2 + 3 * n + (n % 2) <= Len(body)
            THEN <<[op |-> op, n |-> n, payload |-> Bytes(body, pos + 2, 3 * n),
                    pad |-> Bytes(body, pos + 2 + 3 * n, n % 2)]>>
                 \o Spr2ReadRow(body, pos + 2 + 3 * n + (n % 2))
            ELSE <<BadCommand>>

\* no command of the list is unreadable
Readable(cmds) == \A k \in 1..Len(cmds) : cmds[k].op # -1

RECURSIVE PixelCount(_)
\* the pixels the commands cover
PixelCount(cmds) == IF cmds = <<>> THEN 0 ELSE Head(cmds).n + PixelCount(Tail(cmds))

\* the column at which command k starts
StartColumn(cmds, k) == PixelCount(SubSeq(cmds, 1, k - 1))

RECURSIVE Spr1Decode(_, _)
\* the pixels an SPR1 command list stands for
Spr1Decode(cmds, t) ==
    IF cmds = <<>> THEN <<>>
    ELSE LET c == Head(cmds)
         IN (IF c.op = Transparent1 THEN Repeat(t, c.n)
             ELSE IF c.op = Opaque1 THEN c.payload
             ELSE IF c.op = OpaqueRepeat1 THEN Repeat(c.payload[1], c.n)
             ELSE <<-1>>) \o Spr1Decode(Tail(cmds), t)

\* a decoded SPR2 pixel
Spr2Pixel(z, p, a5) == [z |-> z, p |-> p, a5 |-> a5]

RECURSIVE Spr2Decode(_, _)
\* the pixels an SPR2 command list stands for
Spr2Decode(cmds, t) ==
    IF cmds = <<>> THEN <<>>
    ELSE LET c == Head(cmds)
         IN (IF c.op = Transparent2 THEN Repeat(Spr2Pixel(0, t, 0), c.n)
             ELSE IF c.op = Opaque2
             THEN [k \in 1..c.n |-> Spr2Pixel(c.payload[2 * k - 1], c.payload[2 * k], OpaqueAlpha)]
             ELSE IF c.op = Translucent2
             THEN [k \in 1..c.n |-> Spr2Pixel(c.payload[3 * k - 2], c.payload[3 * k - 1], c.payload[3 * k])]
             ELSE <<Spr2Pixel(-1, -1, -1)>>) \o Spr2Decode(Tail(cmds), t)

\* decoded pixels filled up to the row width with the implicit transparent pixels
FillTo(decoded, width, fill) ==
    IF Len(decoded) >= width THEN decoded ELSE decoded \o Repeat(fill, width - Len(decoded))

\* the pixels of row yy of a row-major buffer
RowOf(pixels, yy, width) == Slice(pixels, yy * width, width)

\* the row being scanned, SPR1
Spr1Row == RowOf(Spr1Pixels(Frame), y, Frame.width)

\* the encoder is at the end of the scan of an SPR1 row
Spr1RowDone == pc = "rowend" /\ asset.sprite_type = "Spr1"

\* the encoder is at the end of the scan of an SPR2 row
Spr2RowDone == pc = "rowend" /\ asset.sprite_type = "Spr2"

\* number of columns up to and including the last non-transparent pixel of a row
CoveredWidth(row, t) ==
    IF \A i \in 1..Len(row) : row[i] = t THEN 0
    ELSE CHOOSE i \in 1..Len(row) : row[i] # t /\ \A j \in (i + 1)..Len(row) : row[j] = t

RECURSIVE Spr1ReadFrame(_, _)
\* the commands of an SPR1 frame blob from byte offset pos on (8 for the first),
\* those inside the row bodies included
Spr1ReadFrame(fd, pos) ==
    IF pos = Len(fd) THEN <<>>
    ELSE IF pos + 2 > Len(fd) THEN <<BadCommand>>
    ELSE LET op == fd[pos + 1]
             n == fd[pos + 2]
         IN IF op \in {StartSprite1, EndSprite1, TransparentRows1}
            THEN <<[op |-> op, n |-> n, payload |-> <<>>, pad |-> <<>>]>> \o Spr1ReadFrame(fd, pos + 2)
            ELSE IF op = Start1 /\ n >= 2 /\ pos + n <= Len(fd)
            THEN <<[op |-> op, n |-> n, payload |-> <<>>, pad |-> <<>>]>>
                 \o Spr1ReadRow(Bytes(fd, pos + 2, n - 2), 0) \o Spr1ReadFrame(fd, pos + n)
            ELSE <<BadCommand>>

RECURSIVE Spr2ReadFrame(_, _)
\* the commands of an SPR2 frame blob from byte offset pos on (16 for the first),
\* those inside the row bodies included
Spr2ReadFrame(fd, pos) ==
    IF pos = Len(fd) THEN <<>>
    ELSE IF pos + 2 > Len(fd) THEN <<BadCommand>>
    ELSE LET op == WordAt(fd, pos) \div 8192
             n == WordAt(fd, pos) % 8192
         IN IF op \in {End2, TransparentRows2}
            THEN <<[op |-> op, n |-> n, payload |-> <<>>, pad |-> <<>>]>> \o Spr2ReadFrame(fd, pos + 2)
            ELSE IF op = Start2 /\ n >= 2 /\ pos + n <= Len(fd)
            THEN <<[op |-> op, n |-> n, payload |-> <<>>, pad |-> <<>>]>>
                 \o Spr2ReadRow(Bytes(fd, pos + 2, n - 2), 0) \o Spr2ReadFrame(fd, pos + n)
            ELSE <<BadCommand>>

\* the commands of the k-th encoded frame
FrameCommands(k) ==
    IF asset.sprite_type = "Spr1" THEN Spr1ReadFrame(frame_datas[k], 8)
    ELSE Spr2ReadFrame(frame_datas[k], 16)

\* how many commands of the list carry one of the opcodes
OpCount(cmds, ops) == Cardinality({k \in 1..Len(cmds) : cmds[k].op \in ops})

\* the opcodes of the asset's format
TransparentRowsOp == IF asset.sprite_type = "Spr1" THEN TransparentRows1 ELSE TransparentRows2
StartOp == IF asset.sprite_type = "Spr1" THEN Start1 ELSE Start2
PixelOps ==
    IF asset.sprite_type = "Spr1" THEN {Opaque1, OpaqueRepeat1, Transparent1}
    ELSE {Opaque2, Translucent2, Transparent2}

\* the buffer the transparency tests of frame f read, and the index they compare with
KeyPixels(f) == IF asset.sprite_type = "Spr1" THEN Spr1Pixels(f) ELSE f.p
KeyTransparent(f) == IF asset.sprite_type = "Spr1" THEN Spr1Transparent(f) ELSE f.transparent_color_index
KeyHeight(f) == IF asset.sprite_type = "Spr1" THEN f.height ELSE Spr2Height(f)
KeyWidth(f) == IF asset.sprite_type = "Spr1" THEN f.width ELSE Spr2Width(f)

\* frame f has at least one row and every pixel of it is the transparent colour
AllTransparent(f) ==
    /\ KeyHeight(f) >= 1
    /\ KeyWidth(f) >= 1
    /\ \A i \in 1..Len(KeyPixels(f)) : KeyPixels(f)[i] = KeyTransparent(f)

\* row[s .. s + len - 1] (1-based) is a maximal run of one non-transparent value
IsMaxRun(row, s, len, t) ==
    /\ s >= 1
    /\ len >= 1
    /\ s + len - 1 <= Len(row)
    /\ row[s] # t
    /\ \A i \in s..(s + len - 1) : row[i] = row[s]
    /\ (s = 1 \/ row[s - 1] # row[s])
    /\ (s + len - 1 = Len(row) \/ row[s + len] # row[s])

\* length of the maximal run of equal pixels that ends at position e (1-based)
RunEndingAt(row, e) ==
    CHOOSE len \in 1..e :
        /\ \A i \in (e - len + 1)..e : row[i] = row[e]
        /\ (len = e \/ row[e - len] # row[e])

RECURSIVE NoLiteralPending(_, _, _)
\* no literal is pending when the run that starts at position s begins: s is the row
\* start, or follows a transparent pixel, or follows a run that was itself a repeat
NoLiteralPending(row, s, t) ==
    \/ s = 1
    \/ row[s - 1] = t
    \/ LET len == RunEndingAt(row, s - 1)
       IN len >= REPEAT_THRESHOLD /\ NoLiteralPending(row, s - len, t)

\* the scan of an SPR1 row is over: it reached the end of the scan, or it aborted
\* on a pixel read
Spr1RowOver ==
    /\ asset.sprite_type = "Spr1"
    /\ \/ pc = "rowend"
       \/ pc = "failed" /\ failure = "IndexOutOfBounds"

\* byte offset in the payload at which the i-th frame blob begins
BlobStart(i) == 12 + 4 * Len(frame_datas) + SumLen(SubSeq(frame_datas, 1, i - 1))

\* the i-th entry of the offset table of the payload
OffsetEntry(i) == U32At(chunk_data, 12 + 4 * (i - 1))

\* the frame_count field of the payload
FrameCountField == U32At(chunk_data, 4)

\* the width field of the header of an encoded frame
BlobWidth(fd) == IF asset.sprite_type = "Spr1" THEN WordAt(fd, 6) ELSE WordAt(fd, 0)

(***************************************************************************)
(* Properties.                                                             *)
(***************************************************************************)
\* C1: SPR1 round trip.  At the end of the scan of every row of an SPR1 frame
\* with a positive palette id, decoding the row's commands in order (transparent
\* -> n transparent pixels, opaque -> its payload, opaque-repeat -> n copies of
\* its colour byte, the rest of the row transparent) gives back the row's pixels.
Spr1RoundTrip ==
    (Spr1RowDone /\ PalettePositive) =>
        LET cmds == Spr1ReadRow(row_commands, 0)
            t == Spr1Transparent(Frame)
        IN /\ Readable(cmds)
           /\ FillTo(Spr1Decode(cmds, t), Frame.width, t) = Spr1Row

\* the class of pixel i (1-based) of the SPR2 frame f
Spr2Class(f, i) ==
    IF f.p[i] = f.transparent_color_index THEN "transparent"
    ELSE IF Alpha5(f.a[i]) < OpaqueAlpha THEN "translucent"
    ELSE "opaque"

\* the row being scanned decodes to its source pixels, SPR2
Spr2RowDecodes ==
    LET cmds == Spr2ReadRow(row_commands, 0)
        t == Frame.transparent_color_index
        w == Spr2Width(Frame)
        d == FillTo(Spr2Decode(cmds, t), w, Spr2Pixel(0, t, 0))
    IN /\ Readable(cmds)
       /\ Len(d) = w
       /\ \A i \in 1..w :
            LET k == y * w + i
            IN IF Frame.p[k] = t THEN d[i].p = t
               ELSE d[i] = Spr2Pixel(Frame.z[k], Frame.p[k], Alpha5(Frame.a[k]))

\* C2: SPR2 round trip.  At the end of the scan of every row of an SPR2 frame,
\* decoding the row's commands in order gives back depth, colour and alpha >> 3
\* of every non-transparent pixel and the colour of every transparent pixel.
Spr2RoundTrip == Spr2RowDone => Spr2RowDecodes

\* C2 witness: a scanned row with a translucent, then a transparent, then an
\* opaque pixel, followed by an implicit transparent pixel
Spr2RoundTripWitness ==
    /\ Spr2RowDone
    /\ Spr2Height(Frame) = 1
    /\ Spr2Width(Frame) = 4
    /\ Spr2Class(Frame, 1) = "translucent"
    /\ Spr2Class(Frame, 2) = "transparent"
    /\ Spr2Class(Frame, 3) = "opaque"
    /\ Spr2Class(Frame, 4) = "transparent"
    /\ Len(Spr2ReadRow(row_commands, 0)) = 3
    /\ Spr2RowDecodes

\* C3: SPR1 encoding fails only on a field overflow.  Whenever the encoding of an
\* SPR1 frame whose source image exists has failed, the failure is the overflow
\* of an 8-bit length field.
Spr1FailsOnlyOnOverflow ==
    (asset.sprite_type = "Spr1" /\ pc = "failed" /\ fi <= Len(asset.sprite_frames) /\ Frame.exists)
        => failure \in {"EncodingOverflow", "ArithmeticOverflow"}

\* C4 as claimed: every encoded frame of height >= 1 whose pixels are all the
\* transparent colour holds exactly one transparent-rows command and no opaque,
\* opaque-repeat, translucent or transparent command.
AllTransparentOneRowsCommand ==
    \A k \in 1..Len(frame_datas) :
        AllTransparent(asset.sprite_frames[k]) =>
            /\ Readable(FrameCommands(k))
            /\ OpCount(FrameCommands(k), {TransparentRowsOp}) = 1
            /\ OpCount(FrameCommands(k), PixelOps) = 0

\* C4 amended: every encoded frame of height >= 1 whose pixels are all the
\* transparent colour holds no transparent-rows command; it holds one start-of-row
\* command with an empty body (argument 2) per row and no opaque, opaque-repeat,
\* translucent or transparent command.
AllTransparentEmptyRows ==
    \A k \in 1..Len(frame_datas) :
        AllTransparent(asset.sprite_frames[k]) =>
            LET cmds == FrameCommands(k)
            IN /\ Readable(cmds)
               /\ OpCount(cmds, {TransparentRowsOp}) = 0
               /\ OpCount(cmds, {StartOp}) = KeyHeight(asset.sprite_frames[k])
               /\ \A j \in 1..Len(cmds) : cmds[j].op = StartOp => cmds[j].n = 2
               /\ OpCount(cmds, PixelOps) = 0

\* C4 witness: an encoded all-transparent frame of at least two rows
AllTransparentWitness ==
    /\ pc = "done"
    /\ Len(frame_datas) = 1
    /\ AllTransparent(asset.sprite_frames[1])
    /\ KeyHeight(asset.sprite_frames[1]) >= 2
    /\ OpCount(FrameCommands(1), {StartOp}) >= 2

\* C5: SPR1 repeat threshold.  When the scan of a row is over, every maximal run
\* of exactly 7 equal non-transparent pixels lies inside one opaque command, every
\* maximal run of exactly 8 that starts where no literal is pending is one
\* opaque-repeat command of length 8, and the 2x1 frame [10, 10] (transparent
\* index 0, positive palette id, no custom wall style) encodes to start-of-sprite,
\* start-of-row(6), opaque(2, [10, 10]), end-of-sprite.
Spr1RepeatThreshold ==
    /\ Spr1RowOver =>
        LET row == Spr1Row
            t == Spr1Transparent(Frame)
            cmds == Spr1ReadRow(row_commands, 0)
        IN /\ \A s \in 1..Len(row) :
                IsMaxRun(row, s, REPEAT_THRESHOLD - 1, t) =>
                    /\ pc = "rowend"
                    /\ \E k \in 1..Len(cmds) :
                        /\ cmds[k].op = Opaque1
                        /\ StartColumn(cmds, k) <= s - 1
                        /\ s - 1 + REPEAT_THRESHOLD - 1 <= StartColumn(cmds, k) + cmds[k].n
           /\ \A s \in 1..Len(row) :
                (IsMaxRun(row, s, REPEAT_THRESHOLD, t) /\ NoLiteralPending(row, s, t)) =>
                    /\ pc = "rowend"
                    /\ \E k \in 1..Len(cmds) :
                        /\ cmds[k].op = OpaqueRepeat1
                        /\ cmds[k].n = REPEAT_THRESHOLD
                        /\ StartColumn(cmds, k) = s - 1
    /\ \A k \in 1..Len(frame_datas) :
        (/\ asset.sprite_type = "Spr1"
         /\ ~asset.is_custom_wall_style
         /\ PalettePositive
         /\ asset.sprite_frames[k].width = 2
         /\ asset.sprite_frames[k].height = 1
         /\ asset.sprite_frames[k].transparent_color_index = 0
         /\ asset.sprite_frames[k].p = <<10, 10>>)
        => frame_datas[k] = <<0, 0, 0, 0, 1, 0, 2, 0, StartSprite1, 0, Start1, 6,
                              Opaque1, 2, 10, 10, EndSprite1, 0>>

\* C6: SPR1 flush before repeat.  When the scan of a row is over, for every
\* maximal run of 8 or more equal non-transparent pixels that follows pixels of a
\* pending literal (the pixel before it is not transparent and ends a run shorter
\* than the threshold), an opaque command ends right before the run and the next
\* command is an opaque-repeat whose length is the run's length.
Spr1FlushBeforeRepeat ==
    Spr1RowOver =>
        LET row == Spr1Row
            t == Spr1Transparent(Frame)
            cmds == Spr1ReadRow(row_commands, 0)
        IN \A s \in 2..Len(row) : \A len \in REPEAT_THRESHOLD..Len(row) :
            (/\ IsMaxRun(row, s, len, t)
             /\ row[s - 1] # t
             /\ RunEndingAt(row, s - 1) < REPEAT_THRESHOLD)
            => /\ pc = "rowend"
               /\ \E k \in 1..(Len(cmds) - 1) :
                    /\ cmds[k].op = Opaque1
                    /\ StartColumn(cmds, k) + cmds[k].n = s - 1
                    /\ cmds[k + 1].op = OpaqueRepeat1
                    /\ cmds[k + 1].n = len

\* C7: in every assembled payload the frame_count field is the number of offset
\* entries and of frame blobs, and the i-th offset entry is the position at
\* which the i-th frame blob begins.
OffsetsMatchBlobs ==
    pc = "done" =>
        /\ FrameCountField = Len(frame_datas)
        /\ Len(chunk_data) = BlobStart(Len(frame_datas) + 1)
        /\ \A i \in 1..Len(frame_datas) :
            /\ Bytes(chunk_data, BlobStart(i), Len(frame_datas[i])) = frame_datas[i]
            /\ OffsetEntry(i) = BlobStart(i)

\* C8: in every assembled payload the first offset is 12 + 4 * frame_count, every
\* later offset is the previous one plus the length of the previous frame's blob,
\* the offsets strictly increase, and the blobs are those of the frames in asset
\* order.
OffsetsArePrefixSums ==
    pc = "done" =>
        /\ Len(frame_datas) = Len(asset.sprite_frames)
        /\ Len(frame_datas) >= 1 => OffsetEntry(1) = 12 + 4 * FrameCountField
        /\ \A i \in 2..Len(frame_datas) :
            /\ OffsetEntry(i) = OffsetEntry(i - 1) + Len(frame_datas[i - 1])
            /\ OffsetEntry(i) > OffsetEntry(i - 1)
        /\ \A i \in 1..Len(frame_datas) :
            BlobWidth(frame_datas[i]) = KeyWidth(asset.sprite_frames[i])

\* C8 witness: a payload of three frames of different blob lengths whose declared
\* frame count differs from the number of frames
OffsetsArePrefixSumsWitness ==
    /\ pc = "done"
    /\ Len(frame_datas) = 3
    /\ Len(frame_datas[1]) > Len(frame_datas[2])
    /\ Len(frame_datas[2]) # Len(frame_datas[3])
    /\ OffsetEntry(3) = OffsetEntry(1) + Len(frame_datas[1]) + Len(frame_datas[2])
    /\ asset.sprite_frame_count # Len(asset.sprite_frames)

\* C9: in every scanned SPR1 row the commands follow one another with exactly one
\* zero pad byte after the payload of every opaque command of odd count and none
\* after one of even count: read that way, the body is a sequence of commands
\* that ends at the body's end and covers the row up to its last non-transparent
\* pixel.
Spr1OpaquePadding ==
    Spr1RowDone =>
        LET cmds == Spr1ReadRow(row_commands, 0)
        IN /\ Readable(cmds)
           /\ PixelCount(cmds) = CoveredWidth(Spr1Row, Spr1Transparent(Frame))
           /\ \A k \in 1..Len(cmds) :
                cmds[k].op = Opaque1 =>
                    cmds[k].pad = (IF cmds[k].n % 2 = 1 THEN <<0>> ELSE <<>>)

\* C9 witness: a scanned row that begins with an opaque command of even count,
\* followed by an opaque-repeat command and an opaque command of odd count
Spr1OpaquePaddingWitness ==
    /\ Spr1RowDone
    /\ LET cmds == Spr1ReadRow(row_commands, 0)
       IN /\ Readable(cmds)
          /\ Len(cmds) = 3
          /\ cmds[1].op = Opaque1 /\ cmds[1].n % 2 = 0 /\ cmds[1].pad = <<>>
          /\ cmds[2].op = OpaqueRepeat1
          /\ cmds[3].op = Opaque1 /\ cmds[3].n % 2 = 1 /\ cmds[3].pad = <<0>>

\* the SPR2 row being scanned, as colours
Spr2Row == RowOf(Frame.p, y, Spr2Width(Frame))

\* C10: in every scanned SPR2 row the commands follow one another with exactly
\* one zero pad byte after the 3 * count payload bytes of a translucent command of
\* odd count, none after one of even count, and none after the 2 * count payload
\* bytes of an opaque command of any count: read that way, the body is a sequence
\* of commands that ends at the body's end and covers the row up to its last
\* non-transparent pixel.
Spr2Padding ==
    Spr2RowDone =>
        LET cmds == Spr2ReadRow(row_commands, 0)
        IN /\ Readable(cmds)
           /\ PixelCount(cmds) = CoveredWidth(Spr2Row, Frame.transparent_color_index)
           /\ \A k \in 1..Len(cmds) :
                /\ cmds[k].op = Translucent2 =>
                    /\ Len(cmds[k].payload) = 3 * cmds[k].n
                    /\ cmds[k].pad = (IF cmds[k].n % 2 = 1 THEN <<0>> ELSE <<>>)
                /\ cmds[k].op = Opaque2 =>
                    /\ Len(cmds[k].payload) = 2 * cmds[k].n
                    /\ cmds[k].pad = <<>>

\* C10 witness: a scanned row with a translucent command of odd count and an
\* opaque command of odd count, each followed by another command
Spr2PaddingWitness ==
    /\ Spr2RowDone
    /\ LET cmds == Spr2ReadRow(row_commands, 0)
       IN /\ Readable(cmds)
          /\ \E k \in 1..(Len(cmds) - 1) : cmds[k].op = Translucent2 /\ cmds[k].n % 2 = 1
          /\ \E k \in 1..(Len(cmds) - 1) : cmds[k].op = Opaque2 /\ cmds[k].n % 2 = 1
          /\ \E k \in 1..Len(cmds) : cmds[k].op = Translucent2 /\ cmds[k].n % 2 = 0

\* the class an SPR2 pixel command stands for
Spr2OpClass(op) ==
    IF op = Transparent2 THEN "transparent"
    ELSE IF op = Translucent2 THEN "translucent"
    ELSE IF op = Opaque2 THEN "opaque"
    ELSE "none"

\* C11: SPR2 classification and run grouping.  At the end of the scan of every
\* SPR2 row, every command covers at least one pixel, every pixel a command
\* covers has the command's class (transparent when its colour is the transparent
\* index whatever its alpha, else translucent when alpha >> 3 < 31, else opaque),
\* every pixel no command covers is transparent, and no two consecutive commands
\* have the same opcode.
Spr2ClassesAndRuns ==
    Spr2RowDone =>
        LET cmds == Spr2ReadRow(row_commands, 0)
            w == Spr2Width(Frame)
        IN /\ Readable(cmds)
           /\ PixelCount(cmds) <= w
           /\ \A k \in 1..Len(cmds) :
                /\ cmds[k].n >= 1
                /\ \A i \in (StartColumn(cmds, k) + 1)..(StartColumn(cmds, k) + cmds[k].n) :
                        Spr2Class(Frame, y * w + i) = Spr2OpClass(cmds[k].op)
           /\ \A i \in (PixelCount(cmds) + 1)..w : Spr2Class(Frame, y * w + i) = "transparent"
           /\ \A k \in 1..(Len(cmds) - 1) : cmds[k].op # cmds[k + 1].op

\* C11 witness: a scanned row of two translucent pixels, a transparent pixel of
\* faint alpha and an opaque pixel, encoded as three commands
Spr2ClassesAndRunsWitness ==
    /\ Spr2RowDone
    /\ Spr2Width(Frame) = 4
    /\ Spr2Class(Frame, 1) = "translucent"
    /\ Spr2Class(Frame, 2) = "translucent"
    /\ Spr2Class(Frame, 3) = "transparent" /\ Alpha5(Frame.a[3]) < OpaqueAlpha
    /\ Spr2Class(Frame, 4) = "opaque"
    /\ LET cmds == Spr2ReadRow(row_commands, 0)
       IN /\ Len(cmds) = 3
          /\ cmds[1].op = Translucent2 /\ cmds[1].n = 2
          /\ cmds[2].op = Transparent2 /\ cmds[2].n = 1
          /\ cmds[3].op = Opaque2 /\ cmds[3].n = 1

\* the end of an SPR1 row: the start-of-row argument is exactly 2 + the length of
\* the row's commands, and the step fails when that exceeds 255
Spr1StartExact ==
    (asset.sprite_type = "Spr1" /\ pc = "rowend") =>
        IF 2 + Len(row_commands) > U8Max THEN pc' = "failed"
        ELSE frame_data' = frame_data \o <<Start1, 2 + Len(row_commands)>> \o row_commands

\* a whole-row skip of an SPR1 frame: the argument is exactly the number of rows
\* skipped, at most 255
Spr1RowsExact ==
    (asset.sprite_type = "Spr1" /\ pc = "row" /\ pc' = "row" /\ y' # y) =>
        /\ y' - y <= U8Max
        /\ frame_data' = frame_data \o <<TransparentRows1, y' - y>>

\* the commands of a scanned SPR1 row carry exact counts: they cover the row up to
\* its last non-transparent pixel, each with a count of at least 1
Spr1RunsExact ==
    Spr1RowDone =>
        LET cmds == Spr1ReadRow(row_commands, 0)
        IN /\ Readable(cmds)
           /\ \A k \in 1..Len(cmds) : cmds[k].n >= 1 /\ cmds[k].n <= U8Max
           /\ PixelCount(cmds) = CoveredWidth(Spr1Row, Spr1Transparent(Frame))

\* C13: SPR1 8-bit length fields.  Every start-of-row argument is exactly 2 + the
\* byte length of the commands it wraps, every run and row-count argument is the
\* exact count, and a row whose 2 + body length exceeds 255 makes the encoding
\* fail instead of emitting a wrapped value.
Spr1LengthFields == [](Spr1RunsExact) /\ [][Spr1StartExact /\ Spr1RowsExact]_vars

\* the end of an SPR2 row: the start-of-row word is opcode 0 with exactly 2 + the
\* length of the row's commands in the low 13 bits, and the step fails when that
\* exceeds 8191
Spr2StartExact ==
    (asset.sprite_type = "Spr2" /\ pc = "rowend") =>
        IF 2 + Len(row_commands) > Spr2LengthMax THEN pc' = "failed"
        ELSE frame_data' = frame_data \o LE16(Start2 * 8192 + 2 + Len(row_commands)) \o row_commands

\* a whole-row skip of an SPR2 frame: the word is opcode 4 with exactly the number
\* of rows skipped, at most 8191
Spr2RowsExact ==
    (asset.sprite_type = "Spr2" /\ pc = "row" /\ pc' = "row" /\ y' # y) =>
        /\ y' - y <= Spr2LengthMax
        /\ frame_data' = frame_data \o LE16(TransparentRows2 * 8192 + (y' - y))

\* the commands of a scanned SPR2 row carry exact counts
Spr2RunsExact ==
    Spr2RowDone =>
        LET cmds == Spr2ReadRow(row_commands, 0)
        IN /\ Readable(cmds)
           /\ \A k \in 1..Len(cmds) : cmds[k].n >= 1
           /\ PixelCount(cmds) = CoveredWidth(Spr2Row, Frame.transparent_color_index)

\* C14: SPR2 13-bit length fields.  Every command word has its opcode in the top
\* 3 bits and exactly the run length, the row count or 2 + the row body length in
\* the low 13 bits, and a value above 8191 makes the encoding fail.
Spr2LengthFields == [](Spr2RunsExact) /\ [][Spr2StartExact /\ Spr2RowsExact]_vars

\* the row being scanned, as the values the transparency tests read
KeyRow == RowOf(KeyPixels(Frame), y, KeyWidth(Frame))

\* the commands of the row being scanned
RowCommandsRead ==
    IF asset.sprite_type = "Spr1" THEN Spr1ReadRow(row_commands, 0) ELSE Spr2ReadRow(row_commands, 0)

\* the transparent-run opcode of the asset's format
TransparentOp == IF asset.sprite_type = "Spr1" THEN Transparent1 ELSE Transparent2

\* at the end of the scan of a row the commands cover exactly the columns up to the
\* last non-transparent pixel, the last command is not a transparent run, and a
\* row without a non-transparent pixel has no command
TrailingImplicit ==
    pc = "rowend" =>
        LET cmds == RowCommandsRead
            covered == CoveredWidth(KeyRow, KeyTransparent(Frame))
        IN /\ Readable(cmds)
           /\ PixelCount(cmds) = covered
           /\ cmds # <<>> => cmds[Len(cmds)].op # TransparentOp
           /\ covered = 0 => row_commands = <<>>

\* the row block of a row without commands is a start-of-row command of argument 2
EmptyRowBlock ==
    (pc = "rowend" /\ row_commands = <<>>) =>
        frame_data' = frame_data \o (IF asset.sprite_type = "Spr1" THEN <<Start1, 2>> ELSE LE16(2))

\* C12: in both formats the pixel counts of the commands of every encoded row sum
\* to the index of the row's last non-transparent pixel + 1, no row block ends
\* with a transparent command, and a scanned row without a non-transparent pixel
\* yields a start-of-row command with an empty body (argument 2).
TrailingTransparentImplicit == [](TrailingImplicit) /\ [][EmptyRowBlock]_vars

\* C12 witness: a scanned SPR1 row that begins with a transparent run, goes on
\* with an opaque command and ends with transparent pixels no command covers
TrailingTransparentImplicitWitness ==
    /\ Spr1RowDone
    /\ LET cmds == Spr1ReadRow(row_commands, 0)
       IN /\ Len(cmds) = 2
          /\ cmds[1].op = Transparent1
          /\ cmds[2].op = Opaque1
          /\ PixelCount(cmds) + REPEAT_THRESHOLD <= Frame.width
          /\ Spr1Row[Frame.width] = Spr1Transparent(Frame)

\* C15: SPR1 placeholder bytes.  At the end of the scan of every SPR1 row: when
\* the palette id is not positive, every payload byte of every opaque command and
\* the colour byte of every opaque-repeat command is zero; when it is positive,
\* these bytes are the source pixels the command covers.
Spr1PlaceholderBytes ==
    Spr1RowDone =>
        LET cmds == Spr1ReadRow(row_commands, 0)
        IN /\ Readable(cmds)
           /\ \A k \in 1..Len(cmds) :
                cmds[k].op \in {Opaque1, OpaqueRepeat1} =>
                    \A j \in 1..Len(cmds[k].payload) :
                        cmds[k].payload[j] =
                            IF PalettePositive THEN Spr1Row[StartColumn(cmds, k) + j] ELSE 0

\* the last two bytes of a frame blob are the end marker of the format
EndsWithEndMarker(fd) ==
    /\ Len(fd) >= 2
    /\ Bytes(fd, Len(fd) - 2, 2) =
            (IF asset.sprite_type = "Spr1" THEN <<EndSprite1, 0>> ELSE LE16(End2 * 8192))

\* C16: no partial output on failure.  Until the encoding has returned, and for
\* ever when it has failed, the output holds no byte; when it has returned, the
\* payload is complete: the 12-byte header, one offset entry per frame descriptor
\* and the blob of every frame, each closed by its end marker.
NoPartialOutput ==
    /\ pc # "done" => chunk_data = <<>>
    /\ pc = "done" =>
        /\ Len(frame_datas) = Len(asset.sprite_frames)
        /\ Len(chunk_data) = 12 + 4 * Len(frame_datas) + SumLen(frame_datas)
        /\ U32At(chunk_data, 0) = (IF asset.sprite_type = "Spr1" THEN SPR1_VERSION ELSE SPR2_VERSION)
        /\ \A i \in 1..Len(frame_datas) :
            /\ Bytes(chunk_data, BlobStart(i), Len(frame_datas[i])) = frame_datas[i]
            /\ EndsWithEndMarker(frame_datas[i])

\* C16 witness: the encoding failed on a missing source image after two frames
\* were encoded
NoPartialOutputWitness ==
    /\ pc = "failed"
    /\ failure = "DecodeError"
    /\ fi = 3
    /\ Len(frame_datas) = 2
    /\ chunk_data = <<>>

RECURSIVE RowsAccounted(_)
\* the rows a command list accounts for: the counts of its transparent-rows
\* commands plus one per start-of-row command
RowsAccounted(cmds) ==
    IF cmds = <<>> THEN 0
    ELSE (IF Head(cmds).op = TransparentRowsOp THEN Head(cmds).n
          ELSE IF Head(cmds).op = StartOp THEN 1
          ELSE 0) + RowsAccounted(Tail(cmds))

\* the commands of the frame blob under construction
PartialFrameCommands ==
    IF asset.sprite_type = "Spr1" THEN Spr1ReadFrame(frame_data, 8) ELSE Spr2ReadFrame(frame_data, 16)

\* C17: row accounting.  While a frame is encoded, the row cursor y never exceeds
\* the height and equals the counts of the transparent-rows commands plus the
\* number of start-of-row commands written so far; in every finished frame blob
\* that sum is the frame height.
RowAccounting ==
    /\ pc \in {"row", "scan", "rowend"} =>
        /\ y <= KeyHeight(Frame)
        /\ Readable(PartialFrameCommands)
        /\ RowsAccounted(PartialFrameCommands) = y
    /\ \A k \in 1..Len(frame_datas) :
        /\ Readable(FrameCommands(k))
        /\ RowsAccounted(FrameCommands(k)) = KeyHeight(asset.sprite_frames[k])

\* C17 witness: a finished frame of three rows, two skipped by one transparent-rows
\* command and one encoded
RowAccountingWitness ==
    /\ Len(frame_datas) = 1
    /\ KeyHeight(asset.sprite_frames[1]) = 3
    /\ KeyWidth(asset.sprite_frames[1]) = 2
    /\ LET cmds == FrameCommands(1)
       IN /\ OpCount(cmds, {StartOp}) = 1
          /\ \E k \in 1..Len(cmds) : cmds[k].op = TransparentRowsOp /\ cmds[k].n = 2

\* every pixel of row r (0-based) of frame f is the transparent colour
RowAllTransparent(f, r) ==
    \A i \in 1..KeyWidth(f) : KeyPixels(f)[r * KeyWidth(f) + i] = KeyTransparent(f)

\* command j of the commands of frame f is a transparent-rows command in order:
\* the next command is the start-of-row of a row with a non-transparent pixel, and
\* its count is the number of all-transparent rows right before that row
SkipInOrder(f, cmds, j) ==
    LET r == RowsAccounted(SubSeq(cmds, 1, j - 1))
        n == cmds[j].n
    IN /\ n >= 1
       /\ j < Len(cmds)
       /\ cmds[j + 1].op = StartOp
       /\ r + n < KeyHeight(f)
       /\ \A q \in r..(r + n - 1) : RowAllTransparent(f, q)
       /\ ~RowAllTransparent(f, r + n)
       /\ r = 0 \/ ~RowAllTransparent(f, r - 1)

\* C18: command ordering.  In every finished frame blob each transparent-rows
\* command is immediately followed by the start-of-row command of a row that
\* holds a non-transparent pixel (never by another transparent-rows command or
\* by the end marker), and its count is the full number of consecutive
\* all-transparent rows before that row.
SkipsInOrder ==
    \A k \in 1..Len(frame_datas) :
        LET cmds == FrameCommands(k)
        IN /\ Readable(cmds)
           /\ \A j \in 1..Len(cmds) :
                cmds[j].op = TransparentRowsOp => SkipInOrder(asset.sprite_frames[k], cmds, j)

\* C18 witness: a finished frame of three rows whose middle row alone is skipped
SkipsInOrderWitness ==
    /\ Len(frame_datas) = 1
    /\ KeyHeight(asset.sprite_frames[1]) = 3
    /\ LET cmds == FrameCommands(1)
       IN \E j \in 1..(Len(cmds) - 1) :
            /\ cmds[j].op = TransparentRowsOp
            /\ cmds[j].n = 1
            /\ RowsAccounted(SubSeq(cmds, 1, j - 1)) = 1
            /\ cmds[j + 1].op = StartOp

\* the bytes a command takes: its two header bytes, its payload and its pad
CommandSize(c) == 2 + Len(c.payload) + Len(c.pad)

\* every command of the list takes an even number of bytes, and every SPR1
\* start-of-row argument is even
EvenCommands(cmds) ==
    /\ Readable(cmds)
    /\ \A k \in 1..Len(cmds) :
        /\ CommandSize(cmds[k]) % 2 = 0
        /\ (asset.sprite_type = "Spr1" /\ cmds[k].op = Start1) => cmds[k].n % 2 = 0

\* C19: alignment.  The commands of the row being scanned, the frame blob under
\* construction and every finished frame blob have even byte length and are
\* made of commands of even size after a header of even size, so every command
\* and the end of every blob lie at an even offset from the start of the blob;
\* every SPR1 start-of-row argument is even.
EvenAlignment ==
    /\ Len(row_commands) % 2 = 0
    /\ Len(frame_data) % 2 = 0
    /\ pc \in {"scan", "rowend"} => EvenCommands(RowCommandsRead)
    /\ pc \in {"row", "scan", "rowend"} => EvenCommands(PartialFrameCommands)
    /\ \A k \in 1..Len(frame_datas) :
        /\ Len(frame_datas[k]) % 2 = 0
        /\ EvenCommands(FrameCommands(k))

\* C19 witness: a scanned SPR2 row whose first command is a translucent command
\* of odd count (5 payload bytes and a pad byte) followed by an opaque command
EvenAlignmentWitness ==
    /\ Spr2RowDone
    /\ LET cmds == Spr2ReadRow(row_commands, 0)
       IN /\ Len(cmds) = 2
          /\ cmds[1].op = Translucent2 /\ cmds[1].n = 1 /\ CommandSize(cmds[1]) = 6
          /\ cmds[2].op = Opaque2 /\ cmds[2].n = 3
          /\ Len(row_commands) = 14

\* an iteration of the per-row scan leaves the row (to its end, or by a failure)
\* or strictly increases the column cursor
ScanProgress ==
    pc = "scan" => \/ pc' \in {"rowend", "failed"} /\ x' >= x
                   \/ pc' = "scan" /\ x' > x

\* an iteration of the row loop strictly increases the row cursor: by the number
\* of rows skipped, or by one at the end of an encoded row
RowProgress ==
    /\ (pc = "row" /\ pc' = "row") => y' > y
    /\ (pc = "rowend" /\ pc' = "row") => y' = y + 1
    /\ (pc \in {"row", "scan", "rowend"} /\ pc' \in {"row", "scan", "rowend"}) => y' >= y

\* the encoder has returned or failed
Terminated == pc \in {"done", "failed"}

\* C20: termination.  Every iteration of the per-row scan of both encoders leaves
\* the row or strictly increases x, every iteration of the row loop strictly
\* increases y, and every encoding eventually returns or fails.
Termination == [][ScanProgress /\ RowProgress]_vars /\ <>Terminated

\* C20 witness: the SPR1 scan after an iteration that stopped at a run of 8 equal
\* pixels to flush its literal: x has advanced to the run and the last command
\* is the flushed opaque command
TerminationWitness ==
    /\ asset.sprite_type = "Spr1"
    /\ pc = "scan"
    /\ x > 0
    /\ Spr1Row[x] # Spr1Transparent(Frame)
    /\ Spr1Row[x + 1] # Spr1Transparent(Frame)
    /\ RepeatedWidth(Spr1Ctx(Frame, y), x) >= REPEAT_THRESHOLD
    /\ LET cmds == Spr1ReadRow(row_commands, 0)
       IN /\ cmds # <<>>
          /\ cmds[Len(cmds)].op = Opaque1
          /\ PixelCount(cmds) = x

====
